---- MODULE Spec2Model ----
(***************************************************************************)
(* Model of the currency pallet in pallets/template/src/lib.rs:            *)
(* the storage items BalanceOf and TotalIssuance, the two dispatchables    *)
(* mint_unsafe and transfer, and the events they deposit.                  *)
(*                                                                         *)
(* Balance is u128 in the source; here it is an unsigned integer of        *)
(* BalanceBits bits, so that the additions `b.unwrap_or(0) + amount` can   *)
(* leave the representable range.  The source uses the plain `+`, whose    *)
(* behaviour on overflow depends on the build profile: it panics when      *)
(* overflow checks are compiled in (debug profile) and wraps modulo        *)
(* 2^bits when they are not (release profile).  The profile is fixed at    *)
(* Init (overflow_checks) and never changes.                               *)
(*                                                                         *)
(* A dispatchable that returns Err or panics commits nothing: the pallet   *)
(* macro runs every call in a storage layer that is rolled back on Err,    *)
(* and a panic aborts the whole runtime call, whose changes are dropped.   *)
(***************************************************************************)
EXTENDS Integers, Sequences, FiniteSets, TLC

\* ---------------------------------------------------------------- bounds
\* Width of Balance in bits (u128 in the source, lib.rs:19).
BalanceBits == 2
\* Number of events (successful calls) after which no further call is explored.
MaxEvents == 2

\* ------------------------------------------------------------ data types
\* T::AccountId (u64 in the test runtime).
Accounts == {1, 2, 3}

\* Balance::MAX
u_max == 2^BalanceBits - 1

\* pub type Balance = u128
Balance == 0..u_max

\* Amounts the calls are tried with: 0, the values around the configured
\* minimum, and the values at the top of the range.
Amounts == {0, 1, u_max - 1, u_max}

\* Values Config::min_amount() is configured with (1 in the test runtime).
MinAmounts == {1, 2}

\* Option<T>
None == <<>>
Some(v) == <<v>>
unwrap_or(o, d) == IF o = None THEN d ELSE o[1]

\* RuntimeOrigin: a signed account, or an origin that is not signed.
Signed(a) == [signed |-> TRUE, who |-> a]
Unsigned == [signed |-> FALSE, who |-> 0]
Origins == {Signed(a) : a \in Accounts} \cup {Unsigned}

\* ensure_signed(origin): Ok(who) for a signed origin, Err(BadOrigin) otherwise.
ensure_signed(origin) == IF origin.signed THEN Some(origin.who) ELSE None

\* Event::Mint { to, amount } and Event::Transfer { from, to, amount }
Mint(to, amount) == [kind |-> "Mint", from |-> None, to |-> to, amount |-> amount]
Transfer(from, to, amount) ==
    [kind |-> "Transfer", from |-> Some(from), to |-> to, amount |-> amount]

VARIABLES
    BalanceOf,        \* StorageMap AccountId -> Option<Balance>
    TotalIssuance,    \* StorageValue Option<Balance>
    events,           \* the events deposited so far, oldest first
    min_amount,       \* the value of T::min_amount()
    overflow_checks,  \* TRUE: `+` panics on overflow; FALSE: `+` wraps
    last              \* the last call made: its arguments and its outcome

vars == <<BalanceOf, TotalIssuance, events, min_amount, overflow_checks, last>>

store == <<BalanceOf, TotalIssuance>>

\* ------------------------------------------------------------ arithmetic
\* a + b leaves the range of Balance.
Overflows(a, b) == a + b > u_max

\* The value `a + b` stores when the addition does not panic.
add(a, b) == (a + b) % (2^BalanceBits)

\* Mutant of checked_sub: saturating_sub, an underflow is clamped to 0.
checked_sub_saturating(a, b) == IF b > a THEN Some(0) ELSE Some(a - b)

\* Mutant of checked_sub: wrapping_sub, an underflow wraps modulo 2^bits.
checked_sub_wrapping(a, b) == Some((a - b) % (2^BalanceBits))

\* u128::checked_sub
checked_sub(a, b) == IF b > a THEN None ELSE Some(a - b)

\* ---------------------------------------------------------------- events
\* Mutant of deposit_event: the event is not recorded.
deposit_event_dropped(evs, e) == evs

deposit_event(evs, e) == Append(evs, e)

\* ----------------------------------------------------------- mint_unsafe
\* Mutant of below_min: the comparison is strict, so the minimum itself is rejected.
below_min_strict(amount, min) == ~(amount > min)

\* ensure!(amount >= T::min_amount(), Error::<T>::BelowMinAmount)
below_min(amount, min) == ~(amount >= min)

\* Mutant of credit: every account is written back, so an absent key is
\* stored as Some(0).
credit_touch_all(balances, dest, amount) ==
    [a \in DOMAIN balances |->
        IF a = dest THEN Some(add(unwrap_or(balances[a], 0), amount))
        ELSE Some(unwrap_or(balances[a], 0))]

\* Mutant of credit: a credit of 0 to an absent key writes nothing.
credit_skip_zero(balances, dest, amount) ==
    IF amount = 0 /\ balances[dest] = None THEN balances
    ELSE [balances EXCEPT ![dest] = Some(add(unwrap_or(balances[dest], 0), amount))]

\* BalanceOf::<T>::mutate(dest, |b| *b = Some(b.unwrap_or(0) + amount))
credit(balances, dest, amount) ==
    [balances EXCEPT ![dest] = Some(add(unwrap_or(balances[dest], 0), amount))]

\* Mutant of issue: the issuance is left as it was.
issue_skipped(total, amount) == total

\* Mutant of issue: the amount replaces the issuance instead of being added.
issue_overwrite(total, amount) == Some(amount)

\* TotalIssuance::<T>::mutate(|t| *t = Some(t.unwrap_or(0) + amount))
issue(total, amount) == Some(add(unwrap_or(total, 0), amount))

\* Mutant of mint_result: a caller may mint to its own account only.
mint_result_self_only(origin, dest, amount) ==
    IF ensure_signed(origin) = None THEN "BadOrigin"
    ELSE IF origin.who # dest THEN "BadOrigin"
    ELSE IF below_min(amount, min_amount) THEN "BelowMinAmount"
    ELSE IF overflow_checks /\ Overflows(unwrap_or(BalanceOf[dest], 0), amount)
        THEN "Panic"
    ELSE IF overflow_checks /\ Overflows(unwrap_or(TotalIssuance, 0), amount)
        THEN "Panic"
    ELSE "Ok"

\* The outcome of mint_unsafe(origin, dest, amount) in the current state.
mint_result(origin, dest, amount) ==
    IF ensure_signed(origin) = None THEN "BadOrigin"
    ELSE IF below_min(amount, min_amount) THEN "BelowMinAmount"
    ELSE IF overflow_checks /\ Overflows(unwrap_or(BalanceOf[dest], 0), amount)
        THEN "Panic"
    ELSE IF overflow_checks /\ Overflows(unwrap_or(TotalIssuance, 0), amount)
        THEN "Panic"
    ELSE "Ok"

mint_unsafe(origin, dest, amount) ==
    LET result == mint_result(origin, dest, amount) IN
    /\ Len(events) < MaxEvents
    /\ IF result = "Ok"
       THEN /\ BalanceOf' = credit(BalanceOf, dest, amount)
            /\ TotalIssuance' = issue(TotalIssuance, amount)
            /\ events' = deposit_event(events, Mint(dest, amount))
       ELSE UNCHANGED <<BalanceOf, TotalIssuance, events>>
    /\ last' = [op |-> "mint_unsafe", origin |-> origin, dest |-> dest,
                amount |-> amount, result |-> result]
    /\ UNCHANGED <<min_amount, overflow_checks>>

\* -------------------------------------------------------------- transfer
\* Mutant of transfer_result: the balance check (on the balance read with
\* unwrap_or(0)) comes before the existence check.
transfer_result_balance_first(origin, dest, amount) ==
    LET sender == ensure_signed(origin) IN
    IF sender = None THEN "BadOrigin"
    ELSE IF checked_sub(unwrap_or(BalanceOf[sender[1]], 0), amount) = None
        THEN "InsufficientBalance"
    ELSE IF BalanceOf[sender[1]] = None THEN "NonExistentAccount"
    ELSE IF overflow_checks /\ Overflows(unwrap_or(BalanceOf[dest], 0), amount)
        THEN "Panic"
    ELSE "Ok"

\* The outcome of transfer(origin, dest, amount) in the current state.
transfer_result(origin, dest, amount) ==
    LET sender == ensure_signed(origin) IN
    IF sender = None THEN "BadOrigin"
    ELSE IF BalanceOf[sender[1]] = None THEN "NonExistentAccount"
    ELSE IF checked_sub(BalanceOf[sender[1]][1], amount) = None
        THEN "InsufficientBalance"
    ELSE IF overflow_checks /\ Overflows(unwrap_or(BalanceOf[dest], 0), amount)
        THEN "Panic"
    ELSE "Ok"

\* Mutant of transfer_balances: the remainder is not written to the sender.
transfer_balances_no_debit(balances, sender, dest, amount) ==
    credit(balances, dest, amount)

\* BalanceOf::<T>::mutate(dest, ..); BalanceOf::<T>::insert(&sender, remainder)
\* with remainder computed from the sender's balance read before the writes.
transfer_balances(balances, sender, dest, amount) ==
    LET remainder == checked_sub(balances[sender][1], amount)[1] IN
    [credit(balances, dest, amount) EXCEPT ![sender] = Some(remainder)]

\* Mutant of transfer: dest is credited before the balance check, and the
\* credit stays when the check then fails.
transfer_credit_first(origin, dest, amount) ==
    LET result == transfer_result(origin, dest, amount) IN
    /\ Len(events) < MaxEvents
    /\ IF result = "Ok"
       THEN /\ BalanceOf' = transfer_balances(BalanceOf, origin.who, dest, amount)
            /\ events' = deposit_event(events, Transfer(origin.who, dest, amount))
       ELSE IF result = "InsufficientBalance"
       THEN /\ BalanceOf' = credit(BalanceOf, dest, amount)
            /\ UNCHANGED events
       ELSE UNCHANGED <<BalanceOf, events>>
    /\ last' = [op |-> "transfer", origin |-> origin, dest |-> dest,
                amount |-> amount, result |-> result]
    /\ UNCHANGED <<TotalIssuance, min_amount, overflow_checks>>

transfer(origin, dest, amount) ==
    LET result == transfer_result(origin, dest, amount) IN
    /\ Len(events) < MaxEvents
    /\ IF result = "Ok"
       THEN /\ BalanceOf' = transfer_balances(BalanceOf, origin.who, dest, amount)
            /\ events' = deposit_event(events, Transfer(origin.who, dest, amount))
       ELSE UNCHANGED <<BalanceOf, events>>
    /\ last' = [op |-> "transfer", origin |-> origin, dest |-> dest,
                amount |-> amount, result |-> result]
    /\ UNCHANGED <<TotalIssuance, min_amount, overflow_checks>>

\* --------------------------------------------------------- specification
\* TestState::new_empty(): nothing stored, no event deposited.
Init ==
    /\ BalanceOf = [a \in Accounts |-> None]
    /\ TotalIssuance = None
    /\ events = <<>>
    /\ min_amount \in MinAmounts
    /\ overflow_checks \in BOOLEAN
    /\ last = [op |-> "none", origin |-> Unsigned, dest |-> 0, amount |-> 0,
               result |-> "none"]

Next ==
    \/ \E origin \in Origins, dest \in Accounts, amount \in Amounts :
           transfer(origin, dest, amount)
    \/ \E origin \in Origins, dest \in Accounts, amount \in Amounts :
           mint_unsafe(origin, dest, amount)

Spec == Init /\ [][Next]_vars

\* ------------------------------------------------------ claim vocabulary
\* The three policy errors of Error<T>.
PolicyErrors == {"BelowMinAmount", "NonExistentAccount", "InsufficientBalance"}

RECURSIVE SumOver(_, _)
SumOver(balances, S) ==
    IF S = {} THEN 0
    ELSE LET a == CHOOSE x \in S : TRUE
         IN unwrap_or(balances[a], 0) + SumOver(balances, S \ {a})

\* The sum of all stored balances.
SumOfBalances(balances) == SumOver(balances, DOMAIN balances)

\* The step just taken is a call of op by a signed origin (last' describes it).
MintStep == last'.op = "mint_unsafe" /\ last'.origin.signed
TransferStep == last'.op = "transfer" /\ last'.origin.signed
Succeeds == last'.result = "Ok"

\* ---------------------------------------------------------------- C1
\* C1: after every call of any sequence of mint_unsafe and transfer calls from
\* the empty store, TotalIssuance (absent read as 0) equals the sum of all
\* stored balances.
C1_IssuanceEqualsSum ==
    unwrap_or(TotalIssuance, 0) = SumOfBalances(BalanceOf)

\* ---------------------------------------------------------------- C2
\* C2: a transfer whose sender a is also its dest, from stored balance b:
\* with amount <= b it succeeds and leaves a's balance b; with amount > b it
\* is rejected with InsufficientBalance.
C2_SelfTransferIdentity ==
    [][ (TransferStep /\ last'.dest = last'.origin.who
            /\ BalanceOf[last'.dest] # None)
        => IF last'.amount <= BalanceOf[last'.dest][1]
           THEN Succeeds /\ BalanceOf'[last'.dest] = BalanceOf[last'.dest]
           ELSE last'.result = "InsufficientBalance" ]_vars

\* ---------------------------------------------------------------- C3
\* C3: a call that returns a policy error leaves every balance (also which
\* keys are present) and TotalIssuance (also its presence) as they were.
C3_RejectionLeavesStore ==
    [][ last'.result \in PolicyErrors => store' = store ]_vars

\* A transfer to another account was rejected for insufficient balance: a credit
\* of dest made before the check would show in the store.
C3_Witness ==
    /\ last.op = "transfer"
    /\ last.result = "InsufficientBalance"
    /\ last.amount > 0
    /\ last.dest # last.origin.who

\* ---------------------------------------------------------------- C4
\* C4: mint_unsafe with amount < min_amount() is rejected with BelowMinAmount
\* for every caller and dest; with amount = min_amount() it succeeds whenever
\* the two additions stay within the range of Balance.
C4_MinimumAmount ==
    [][ MintStep =>
        /\ (last'.amount < min_amount => last'.result = "BelowMinAmount")
        /\ (/\ last'.amount = min_amount
            /\ unwrap_or(BalanceOf[last'.dest], 0) + last'.amount <= u_max
            /\ unwrap_or(TotalIssuance, 0) + last'.amount <= u_max
            => Succeeds) ]_vars

\* A mint of exactly the minimum succeeded on top of an existing issuance.
C4_Witness ==
    /\ last.op = "mint_unsafe"
    /\ last.amount = min_amount
    /\ last.result = "Ok"
    /\ Len(events) = 2

\* ---------------------------------------------------------------- C5
\* C5: every successful mint_unsafe(dest, amount) sets dest's balance to its
\* previous balance (0 when absent) plus amount, and TotalIssuance to its
\* previous value (0 when absent) plus amount.
C5_MintPostcondition ==
    [][ (MintStep /\ Succeeds) =>
        /\ BalanceOf'[last'.dest]
              = Some(unwrap_or(BalanceOf[last'.dest], 0) + last'.amount)
        /\ TotalIssuance' = Some(unwrap_or(TotalIssuance, 0) + last'.amount) ]_vars

\* ---------------------------------------------------------------- C6
\* C6: every successful transfer takes amount off the sender's balance, puts
\* amount on dest's balance (0 when absent) and leaves TotalIssuance as it
\* was; for a sender that is its own dest the two cancel.
C6_Debit(a) == IF a = last'.origin.who THEN last'.amount ELSE 0
C6_Credit(a) == IF a = last'.dest THEN last'.amount ELSE 0
C6_TransferPostcondition ==
    [][ (TransferStep /\ Succeeds) =>
        /\ \A a \in {last'.origin.who, last'.dest} :
              BalanceOf'[a]
                 = Some(unwrap_or(BalanceOf[a], 0) - C6_Debit(a) + C6_Credit(a))
        /\ TotalIssuance' = TotalIssuance ]_vars

\* ---------------------------------------------------------------- C7
\* C7: a transfer whose sender has no stored balance is rejected with
\* NonExistentAccount, whatever dest and amount are.
C7_AbsentSenderRejected ==
    [][ (TransferStep /\ BalanceOf[last'.origin.who] = None)
        => last'.result = "NonExistentAccount" ]_vars

\* An absent sender asked for a positive amount, which is also more than it has.
C7_Witness ==
    /\ last.op = "transfer"
    /\ last.origin.signed
    /\ BalanceOf[last.origin.who] = None
    /\ last.amount > 0
    /\ last.result = "NonExistentAccount"

\* ---------------------------------------------------------------- C8
\* C8: a transfer from a sender with stored balance b is rejected with
\* InsufficientBalance exactly when amount > b; with amount = b it succeeds
\* and leaves the sender's key present with balance 0.
C8_InsufficientExactly ==
    [][ (TransferStep /\ BalanceOf[last'.origin.who] # None) =>
        /\ (last'.result = "InsufficientBalance"
              <=> last'.amount > BalanceOf[last'.origin.who][1])
        /\ (last'.amount = BalanceOf[last'.origin.who][1]
              => Succeeds /\ BalanceOf'[last'.origin.who] = Some(0)) ]_vars

\* ---------------------------------------------------------------- C9
\* C9: when an addition of mint_unsafe (dest's balance + amount, or
\* TotalIssuance + amount) or of transfer (dest's balance + amount) would
\* exceed the maximum of Balance, the call commits no write.
C9_OverflowCommitsNothing ==
    [][ /\ (MintStep /\ ~below_min(last'.amount, min_amount)
              /\ (\/ Overflows(unwrap_or(BalanceOf[last'.dest], 0), last'.amount)
                  \/ Overflows(unwrap_or(TotalIssuance, 0), last'.amount))
            => store' = store)
        /\ (TransferStep
              /\ Overflows(unwrap_or(BalanceOf[last'.dest], 0), last'.amount)
            => store' = store) ]_vars

\* ---------------------------------------------------------------- C10
\* C10: a successful mint_unsafe appends exactly the event Mint{to: dest,
\* amount}, a successful transfer exactly Transfer{from: sender, to: dest,
\* amount}, and every other call appends nothing.
C10_ExpectedEvent ==
    IF last'.op = "mint_unsafe"
    THEN [kind |-> "Mint", from |-> None, to |-> last'.dest,
          amount |-> last'.amount]
    ELSE [kind |-> "Transfer", from |-> Some(last'.origin.who),
          to |-> last'.dest, amount |-> last'.amount]
C10_OneEventPerSuccess ==
    [][ IF Succeeds
        THEN events' = Append(events, C10_ExpectedEvent)
        ELSE events' = events ]_vars

\* A mint and then a transfer succeeded, and the log holds their two events.
C10_Witness ==
    /\ last.op = "transfer"
    /\ last.result = "Ok"
    /\ Len(events) = 2
    /\ events[1].kind = "Mint"
    /\ events[2].kind = "Transfer"

\* ---------------------------------------------------------------- C11
\* C11: every stored balance is an integer in 0..Balance::MAX; a successful
\* transfer writes remainder = sender's balance - amount to the sender, with
\* 0 <= remainder <= sender's balance; a transfer of more than the sender
\* holds is rejected and writes nothing (it is not clamped to 0 or wrapped).
C11_NoNegativeBalance ==
    [][ /\ \A a \in Accounts :
              BalanceOf'[a] # None => BalanceOf'[a][1] \in Balance
        /\ (TransferStep /\ Succeeds) =>
              /\ last'.amount <= BalanceOf[last'.origin.who][1]
              /\ BalanceOf'[last'.origin.who]
                    = Some(BalanceOf[last'.origin.who][1] - last'.amount)
        /\ (TransferStep /\ BalanceOf[last'.origin.who] # None
              /\ last'.amount > BalanceOf[last'.origin.who][1]) =>
              ~Succeeds /\ store' = store ]_vars

\* A transfer took a positive amount off a sender and left it a positive rest.
C11_Witness ==
    /\ last.op = "transfer"
    /\ last.result = "Ok"
    /\ last.amount > 0
    /\ last.dest # last.origin.who
    /\ BalanceOf[last.origin.who][1] > 0

\* ---------------------------------------------------------------- C12
\* C12: a mint_unsafe step made by one signed caller has the outcome that the
\* same call (same dest and amount, same state) has for every other signed
\* caller; the store and event it produces are fixed by dest, amount and the
\* state before, and the caller's own balance is neither needed nor changed
\* unless the caller is dest.
C12_MintIgnoresCaller ==
    [][ MintStep =>
        /\ \A w \in Accounts :
              mint_result(Signed(w), last'.dest, last'.amount) = last'.result
        /\ (last'.dest # last'.origin.who =>
              BalanceOf'[last'.origin.who] = BalanceOf[last'.origin.who])
        /\ IF Succeeds
           THEN /\ BalanceOf' = [BalanceOf EXCEPT ![last'.dest] =
                     <<(unwrap_or(BalanceOf[last'.dest], 0) + last'.amount)
                          % (2^BalanceBits)>>]
                /\ TotalIssuance' = <<(unwrap_or(TotalIssuance, 0) + last'.amount)
                                         % (2^BalanceBits)>>
                /\ events' = Append(events, [kind |-> "Mint", from |-> None,
                                 to |-> last'.dest, amount |-> last'.amount])
           ELSE store' = store /\ events' = events ]_vars

\* A caller without any stored balance minted to another account, while a
\* third account already held a balance.
C12_Witness ==
    /\ last.op = "mint_unsafe"
    /\ last.result = "Ok"
    /\ last.dest # last.origin.who
    /\ BalanceOf[last.origin.who] = None
    /\ \E a \in Accounts \ {last.dest, last.origin.who} : BalanceOf[a] # None

\* ---------------------------------------------------------------- C13
\* C13: a successful mint_unsafe changes no balance but dest's; a successful
\* transfer changes no balance but the sender's and dest's and does not write
\* TotalIssuance. Every other account keeps its balance and stays present or
\* absent as it was.
C13_Frame ==
    [][ /\ (MintStep /\ Succeeds) =>
              \A a \in Accounts \ {last'.dest} : BalanceOf'[a] = BalanceOf[a]
        /\ (TransferStep /\ Succeeds) =>
              /\ \A a \in Accounts \ {last'.origin.who, last'.dest} :
                    BalanceOf'[a] = BalanceOf[a]
        /\ last'.op = "transfer" => TotalIssuance' = TotalIssuance ]_vars

\* A transfer between two accounts succeeded while the third account had
\* never been credited, and it is still absent.
C13_Witness ==
    /\ last.op = "transfer"
    /\ last.result = "Ok"
    /\ last.dest # last.origin.who
    /\ \E a \in Accounts \ {last.dest, last.origin.who} : BalanceOf[a] = None

\* ---------------------------------------------------------------- C14
\* The events of the successful mint_unsafe calls made so far.
MintEvents == { i \in 1..Len(events) : events[i].kind = "Mint" }

\* C14: TotalIssuance is absent in every state in which no mint_unsafe has
\* succeeded yet and present in every state from the first successful
\* mint_unsafe on; no step takes it from present back to absent.
C14_IssuancePresence ==
    [][ /\ (TotalIssuance' = None <=> { i \in 1..Len(events') :
                                          events'[i].kind = "Mint" } = {})
        /\ (TotalIssuance # None => TotalIssuance' # None) ]_vars

\* The issuance wrapped to 0 in a second mint and is still present; before
\* the first mint it was absent.
C14_Witness ==
    /\ Cardinality(MintEvents) = 2
    /\ TotalIssuance = Some(0)

\* ---------------------------------------------------------------- C15
\* C15: after every step an account's balance is present exactly when the
\* account is the dest of a successful mint_unsafe or transfer made so far
\* (also of a transfer of amount 0), and a present balance stays present,
\* also when it drops to 0.
C15_AccountKeys ==
    [][ \A a \in Accounts :
          /\ (BalanceOf'[a] # None
                <=> \E i \in 1..Len(events') : events'[i].to = a)
          /\ (BalanceOf[a] # None => BalanceOf'[a] # None) ]_vars

\* A transfer of amount 0 to a never-credited account recorded it with
\* balance 0.
C15_Witness ==
    /\ last.op = "transfer"
    /\ last.result = "Ok"
    /\ last.amount = 0
    /\ last.dest # last.origin.who
    /\ BalanceOf[last.dest] = Some(0)
    /\ \A i \in 1..(Len(events) - 1) : events[i].to # last.dest

\* ---------------------------------------------------------------- C16
\* The sum of the amounts of the successful mint_unsafe calls in a log.
RECURSIVE MintSum(_)
MintSum(evs) ==
    IF evs = <<>> THEN 0
    ELSE (IF evs[Len(evs)].kind = "Mint" THEN evs[Len(evs)].amount ELSE 0)
           + MintSum(SubSeq(evs, 1, Len(evs) - 1))

\* C16: while the mints made so far sum to at most Balance::MAX (no addition
\* left the range), TotalIssuance never decreases: a successful mint_unsafe
\* raises it by exactly amount, every other call leaves it as it was, and it
\* equals the sum of the amounts of all successful mints so far.
C16_IssuanceMonotone ==
    [][ MintSum(events') <= u_max =>
        /\ unwrap_or(TotalIssuance', 0) >= unwrap_or(TotalIssuance, 0)
        /\ (MintStep /\ Succeeds) =>
              TotalIssuance' = Some(unwrap_or(TotalIssuance, 0) + last'.amount)
        /\ ~(MintStep /\ Succeeds) => TotalIssuance' = TotalIssuance
        /\ unwrap_or(TotalIssuance', 0) = MintSum(events') ]_vars

\* Two mints of positive amounts succeeded within the range, and the issuance
\* is their sum.
C16_Witness ==
    /\ Len(events) = 2
    /\ events[1].kind = "Mint" /\ events[1].amount > 0
    /\ events[2].kind = "Mint" /\ events[2].amount > 0
    /\ events[1].amount + events[2].amount <= u_max
    /\ TotalIssuance = Some(events[1].amount + events[2].amount)

\* ---------------------------------------------------------------- C17
\* C17: no transfer, between two accounts or from an account to itself,
\* increases the sum of all stored balances; and while the mints made so far
\* sum to at most Balance::MAX (no addition left the range), the sum of all
\* stored balances is at most TotalIssuance (absent read as 0).
C17_NoFundsCreated ==
    [][ /\ last'.op = "transfer" =>
              SumOfBalances(BalanceOf') <= SumOfBalances(BalanceOf)
        /\ MintSum(events') <= u_max =>
              SumOfBalances(BalanceOf') <= unwrap_or(TotalIssuance', 0) ]_vars

\* A transfer from an account to itself succeeded with a positive amount: the
\* balances now sum to less than the issuance.
C17_Witness ==
    /\ last.op = "transfer"
    /\ last.result = "Ok"
    /\ last.amount > 0
    /\ last.dest = last.origin.who
    /\ MintSum(events) <= u_max
    /\ SumOfBalances(BalanceOf) < unwrap_or(TotalIssuance, 0)

\* ---------------------------------------------------------------- C18
\* C18: in every state whose mints sum to at most Balance::MAX (their
\* additions stayed within the range), a transfer between two distinct
\* accounts that passes the existence and balance checks cannot overflow the
\* addition to dest: dest's balance + amount <= dest's balance + sender's
\* balance <= TotalIssuance <= Balance::MAX, so the call returns Ok.
C18_DistinctTransferInRange ==
    MintSum(events) <= u_max =>
        \A s \in Accounts, d \in Accounts :
            (s # d /\ BalanceOf[s] # None) =>
                /\ unwrap_or(BalanceOf[d], 0) + BalanceOf[s][1]
                      <= unwrap_or(TotalIssuance, 0)
                /\ unwrap_or(TotalIssuance, 0) <= u_max
                /\ \A amount \in 0..BalanceOf[s][1] :
                      /\ ~Overflows(unwrap_or(BalanceOf[d], 0), amount)
                      /\ transfer_result(Signed(s), d, amount) = "Ok"

\* A transfer between two distinct accounts succeeded and took dest's balance
\* to exactly Balance::MAX.
C18_Witness ==
    /\ last.op = "transfer"
    /\ last.result = "Ok"
    /\ last.amount > 0
    /\ last.dest # last.origin.who
    /\ MintSum(events) <= u_max
    /\ BalanceOf[last.dest] = Some(u_max)

====
